---------------------------- MODULE Spec2Model ----------------------------
(***************************************************************************)
(* Model of the oj-judger fleet: the Manager's HTTP face                   *)
(* (judger/manager/__init__.py), the dispatcher loop                       *)
(* (judger/manager/distribute.py), the executor's intake handler           *)
(* (judger/executor/__init__.py), the heartbeat reporter                   *)
(* (judger/executor/reporter.py) and the evaluation pipeline's report and  *)
(* cleanup (judger/executor/validate.py).                                  *)
(*                                                                         *)
(* The Manager's tables live in SQLite; every committed transaction is one *)
(* atomic step.  The dispatcher, the Manager's HTTP workers, the executor  *)
(* handlers and the pipeline processes are separate processes, so their    *)
(* steps interleave freely.  Storage and the Manager's socket are taken to *)
(* be available in Spec: sqlite3.Error and a refused result POST are not   *)
(* steps of Spec.                                                          *)
(***************************************************************************)
EXTENDS Integers, Sequences, FiniteSets, TLC

\* Addresses of the executor nodes (request.remote_addr / executors.ip).
IPs == {"10.0.0.2", "10.0.0.3"}

\* Judgment ids the Web backend asks for.  Posting the same id again queues
\* another task for it.
JudgmentIds == {42}

\* Bounds of the model.
MaxQueue == 2
MaxTaskId == 3
MaxExecutorId == 3
MaxInbox == 1
MaxPipelines == 2
MaxImpls == 1
MaxRequirements == 2
MaxUpdatedAt == 3
MaxCursors == 3
MaxLines == 3
MaxColumns == 2
MaxParameters == 1
MaxEntries == 3

VARIABLES
    tasks,      \* table tasks, rows in commit order: <<[id, judgment_id]>>
    executors,  \* table executors: set of [id, ip, data, idle]
    disp,       \* the dispatcher loop: its position and its local variables
    inbox,      \* per executor: judge requests sent to it and not yet handled
    pipes,      \* per executor: the validate.py processes that are running
    workdir,    \* per executor: judgment ids whose judgement_for_{id} exists
    sink,       \* the result request the Manager is handling, if any
    hb,         \* per Manager worker: the status report it is handling
    run,        \* one run of validate.py followed step by step
    tm,         \* an executor process and the templates it has fetched
    api,        \* one call of APIClient._request followed to its end
    judge,      \* one call of the executor's judge handler
    ext         \* one call of a FunctionExtractor method

vars ==
    <<tasks, executors, disp, inbox, pipes, workdir, sink, hb, run,
      tm, api, judge, ext>>

----------------------------------------------------------------------------
(* Python values and their JSON text *)

None == [kind |-> "none"]

\* A heartbeat payload as a Python value: an object carrying is_alive
\* ("true"/"false"), an object without the key ("absent"), or a JSON value
\* that is not an object.
PyObject(flag) == [kind |-> "object", is_alive |-> flag]
PyNumber == [kind |-> "number"]

\* json.dumps(value)
Dumps(v) ==
    CASE v.kind = "number" -> "0"
      [] v.kind = "none" -> "null"
      [] v.kind = "object" /\ v.is_alive = "true" -> "{\"is_alive\": true}"
      [] v.kind = "object" /\ v.is_alive = "false" -> "{\"is_alive\": false}"
      [] OTHER -> "{}"

\* json.loads(text); [kind |-> "JSONDecodeError"] when text is no JSON.
Loads(text) ==
    CASE text = "0" -> PyNumber
      [] text = "null" -> None
      [] text = "{\"is_alive\": true}" -> PyObject("true")
      [] text = "{\"is_alive\": false}" -> PyObject("false")
      [] text = "{}" -> PyObject("absent")
      [] OTHER -> [kind |-> "JSONDecodeError"]

----------------------------------------------------------------------------
(* Tables *)

Range(s) == {s[i] : i \in 1..Len(s)}

Max(S) == CHOOSE x \in S : \A y \in S : y <= x

\* SQLite INTEGER PRIMARY KEY without AUTOINCREMENT: the largest rowid in the
\* table plus one, 1 for an empty table.
NextRowId(rows) == IF rows = {} THEN 1 ELSE Max({r.id : r \in rows}) + 1

\* A faulty lookup, for the sensitivity of C9: the first row of the table,
\* whatever its address (the query without its filter).
FirstExecutor(ex, ip) == ex

\* Executor.query.filter_by(ip=ip).first(): the set of matching rows (at most
\* one, ip is unique).
ExecutorByIp(ex, ip) == {e \in ex : e.ip = ip}

\* The number of entries over all executors of a per-executor queue.
RECURSIVE CountAll(_, _)
CountAll(q, S) ==
    IF S = {} THEN 0
    ELSE LET ip == CHOOSE x \in S : TRUE
         IN  Len(q[ip]) + CountAll(q, S \ {ip})

Pending(q) == CountAll(q, DOMAIN q)

\* Remove the i-th element of a sequence.
RemoveAt(s, i) == SubSeq(s, 1, i - 1) \o SubSeq(s, i + 1, Len(s))

----------------------------------------------------------------------------
(* Manager: task intake and heartbeat sink *)

\* A faulty intake, for the sensitivity of C12: a queued row of the same
\* judgment is replaced by the new row.
AddTaskReplacing(ts, judgment_id) ==
    Append(SelectSeq(ts, LAMBDA t : t.judgment_id # judgment_id),
           [id |-> NextRowId(Range(ts)), judgment_id |-> judgment_id])

\* judge_submission: Task(judgment_id=...) added and committed; answers 202.
AddTask(ts, judgment_id) ==
    Append(ts, [id |-> NextRowId(Range(ts)), judgment_id |-> judgment_id])

Intake(judgment_id) ==
    /\ Len(tasks) < MaxQueue
    /\ NextRowId(Range(tasks)) <= MaxTaskId
    /\ tasks' = AddTask(tasks, judgment_id)
    /\ UNCHANGED <<executors, disp, inbox, pipes, workdir, sink, hb, run,
                   tm, api, judge, ext>>

\* StatusReporter.collect_status: is_alive is check_service_alive(), a bool.
CollectStatus(alive) == PyObject(IF alive THEN "true" ELSE "false")

\* A faulty upsert, for the sensitivity of C14: a row is added for every
\* report.
InsertExecutor(ex, ip, json_data) ==
    ex \cup {[id |-> NextRowId(ex), ip |-> ip, data |-> json_data,
              idle |-> TRUE]}

\* A faulty upsert, for the sensitivity of C36: the new row does not get the
\* column default, it is created with idle=False.
UpsertNotIdle(ex, ip, json_data) ==
    IF ExecutorByIp(ex, ip) = {}
    THEN ex \cup {[id |-> NextRowId(ex), ip |-> ip, data |-> json_data,
                   idle |-> FALSE]}
    ELSE {IF e.ip = ip THEN [e EXCEPT !.data = json_data] ELSE e : e \in ex}

\* A faulty upsert, for the sensitivity of C37: an update writes the whole
\* row, idle at its default included.
UpsertResetIdle(ex, ip, json_data) ==
    IF ExecutorByIp(ex, ip) = {}
    THEN ex \cup {[id |-> NextRowId(ex), ip |-> ip, data |-> json_data,
                   idle |-> TRUE]}
    ELSE {IF e.ip = ip THEN [e EXCEPT !.data = json_data, !.idle = TRUE]
                       ELSE e : e \in ex}

\* update_executor_status after its 400 checks: the row of ip gets the new
\* data, or a new row (idle defaults to True) is created.
Upsert(ex, ip, json_data) ==
    IF ExecutorByIp(ex, ip) = {}
    THEN ex \cup {[id |-> NextRowId(ex), ip |-> ip, data |-> json_data,
                   idle |-> TRUE]}
    ELSE {IF e.ip = ip THEN [e EXCEPT !.data = json_data] ELSE e : e \in ex}

\* The text of the error answered for a body that is no JSON, word by word.
InvalidJsonData == <<"invalid", "JSON", "data">>

\* update_executor_status(request body = data): the status it answers, the
\* "error" text of the answer (none with 200) and the table it leaves.
UpdateExecutorStatus(ex, ip, data) ==
    IF data = None
    THEN [status |-> 400, error |-> InvalidJsonData, executors |-> ex]
    ELSE [status |-> 200, error |-> <<>>,
          executors |-> Upsert(ex, ip, Dumps(data))]

\* One report of the reporter of executor ip, received by the Manager.
Heartbeat(ip, alive) ==
    LET r == UpdateExecutorStatus(executors, ip, CollectStatus(alive))
    IN  /\ ExecutorByIp(executors, ip) = {} => NextRowId(executors) <= MaxExecutorId
        /\ executors' = r.executors
        /\ UNCHANGED <<tasks, disp, inbox, pipes, workdir, sink, hb, run,
                       tm, api, judge, ext>>

----------------------------------------------------------------------------
(* Dispatcher loop *)

DispSleep ==
    [pc |-> "sleep", task_id |-> 0, judgment_id |-> 0, executor_id |-> 0,
     executor_ip |-> "", status |-> 0]

\* A faulty selection, for the sensitivity of C1: ORDER BY id DESC.
NewestTask(ts) == CHOOSE t \in Range(ts) : \A u \in Range(ts) : t.id >= u.id

\* SELECT id, judgment_id FROM tasks ORDER BY id ASC LIMIT 1
OldestTask(ts) == CHOOSE t \in Range(ts) : \A u \in Range(ts) : t.id <= u.id

\* SELECT id, ip, data FROM executors WHERE idle=1, as SQLite returns it: in
\* rowid order.
RECURSIVE SortById(_)
SortById(rows) ==
    IF rows = {} THEN <<>>
    ELSE LET r == CHOOSE x \in rows : \A y \in rows : x.id <= y.id
         IN  <<r>> \o SortById(rows \ {r})

\* A faulty query, for the sensitivity of C18: WHERE idle=0.
BusyExecutors(ex) == SortById({e \in ex : ~e.idle})

\* A faulty query, for the sensitivity of C35: ORDER BY id DESC.
IdleExecutorsNewestFirst(ex) ==
    LET s == SortById({e \in ex : e.idle})
    IN  [i \in 1..Len(s) |-> s[Len(s) + 1 - i]]

IdleExecutors(ex) == SortById({e \in ex : e.idle})

\* A faulty selection, for the sensitivity of C13: the first idle executor
\* whose data parses, whatever its is_alive.
FirstIdleExecutor(rows) ==
    IF rows = <<>> THEN [outcome |-> "none", id |-> 0, ip |-> ""]
    ELSE [outcome |-> "chosen", id |-> Head(rows).id, ip |-> Head(rows).ip]

\* The selection loop over idle_executors.  json.JSONDecodeError skips the
\* row; a parsed value that is no object has no .get, and the AttributeError
\* is caught nowhere in distribute_tasks: the loop ends ("crash").
RECURSIVE ChooseExecutor(_)
ChooseExecutor(rows) ==
    IF rows = <<>> THEN [outcome |-> "none", id |-> 0, ip |-> ""]
    ELSE LET e == Head(rows)
             data == Loads(e.data)
         IN  CASE data.kind = "JSONDecodeError" -> ChooseExecutor(Tail(rows))
               [] data.kind = "object" ->
                    IF data.is_alive = "true"
                    THEN [outcome |-> "chosen", id |-> e.id, ip |-> e.ip]
                    ELSE ChooseExecutor(Tail(rows))
               [] OTHER -> [outcome |-> "crash", id |-> 0, ip |-> ""]

\* One pass of the loop up to requests.post: the oldest task, the chosen
\* executor, and the request sent.  An empty queue or no live idle executor
\* is `continue': nothing changes.
DispatchTick ==
    /\ disp.pc = "sleep"
    /\ tasks # <<>>
    /\ LET task == OldestTask(tasks)
           chosen == ChooseExecutor(IdleExecutors(executors))
       IN  /\ chosen.outcome # "none"
           /\ IF chosen.outcome = "crash"
              THEN /\ disp' = [DispSleep EXCEPT !.pc = "crashed"]
                   /\ UNCHANGED inbox
              ELSE /\ Pending(inbox) < MaxInbox
                   /\ disp' = [pc |-> "posted", task_id |-> task.id,
                               judgment_id |-> task.judgment_id,
                               executor_id |-> chosen.id,
                               executor_ip |-> chosen.ip, status |-> 0]
                   /\ inbox' = [inbox EXCEPT ![chosen.ip] =
                                   Append(@, [judgment_id |-> task.judgment_id,
                                              live |-> TRUE])]
    /\ UNCHANGED <<tasks, executors, pipes, workdir, sink, hb, run,
                   tm, api, judge, ext>>

\* A faulty update, for the sensitivity of C2: the statement is not part of
\* the commit, the table stays as it was.
SetBusyLost(ex, executor_id) == ex

\* UPDATE executors SET idle=0 WHERE id=?
SetBusy(ex, executor_id) ==
    {IF e.id = executor_id THEN [e EXCEPT !.idle = FALSE] ELSE e : e \in ex}

\* DELETE FROM tasks WHERE id=?
DeleteTask(ts, task_id) == SelectSeq(ts, LAMBDA t : t.id # task_id)

\* A faulty delete, for the sensitivity of C4: DELETE FROM executors WHERE
\* idle=1, every idle row goes.
RemoveIdleExecutors(ex, executor_id) == {e \in ex : ~e.idle}

\* handle_failed_executor: DELETE FROM executors WHERE id=?
RemoveExecutor(ex, executor_id) == {e \in ex : e.id # executor_id}

\* response.status_code == 202: both statements, one commit.
DispatchAssign ==
    /\ disp.pc = "posted"
    /\ disp.status = 202
    /\ executors' = SetBusy(executors, disp.executor_id)
    /\ tasks' = DeleteTask(tasks, disp.task_id)
    /\ disp' = DispSleep
    /\ UNCHANGED <<inbox, pipes, workdir, sink, hb, run,
                   tm, api, judge, ext>>

\* Any other status code: the executor is removed, the task stays.
DispatchReap ==
    /\ disp.pc = "posted"
    /\ disp.status \notin {0, 202}
    /\ executors' = RemoveExecutor(executors, disp.executor_id)
    /\ disp' = DispSleep
    /\ UNCHANGED <<tasks, inbox, pipes, workdir, sink, hb, run,
                   tm, api, judge, ext>>

\* requests.post raised before any response: Timeout (the request stays with
\* the executor, which may still handle it) or another RequestException (the
\* request never arrived).  Either way handle_failed_executor runs.
DispatchException(kind) ==
    /\ disp.pc = "posted"
    /\ disp.status = 0
    /\ inbox' = [inbox EXCEPT ![disp.executor_ip] =
                    IF kind = "timeout"
                    THEN [i \in DOMAIN @ |-> [@[i] EXCEPT !.live = FALSE]]
                    ELSE SelectSeq(@, LAMBDA r : ~r.live)]
    /\ executors' = RemoveExecutor(executors, disp.executor_id)
    /\ disp' = DispSleep
    /\ UNCHANGED <<tasks, pipes, workdir, sink, hb, run,
                   tm, api, judge, ext>>

----------------------------------------------------------------------------
(* Executor: the intake handler POST /api/judge/{judgment_id} *)

\* How one run of judge_judgment ends: it reaches subprocess.Popen, or an
\* exception ends it while it fetches from the Web backend (before the
\* working directory is touched), while it resolves the template (after
\* rmtree of an existing working directory), or while it unpacks the
\* submission (after copytree created the working directory).
HandlerOutcomes == {"spawn", "fetch_error", "template_error", "unpack_error"}

\* judge_judgment(judgment_id) on an executor whose existing working
\* directories are dirs: the status answered, the directories left and
\* whether validate.py was started.  Nothing in it looks at running pipelines.
JudgeJudgment(dirs, judgment_id, outcome) ==
    CASE outcome = "fetch_error" ->
            [status |-> 500, dirs |-> dirs, spawned |-> FALSE]
      [] outcome = "template_error" ->
            [status |-> 500, dirs |-> dirs \ {judgment_id}, spawned |-> FALSE]
      [] outcome = "unpack_error" ->
            [status |-> 500, dirs |-> dirs \cup {judgment_id}, spawned |-> FALSE]
      [] OTHER ->
            [status |-> 202, dirs |-> dirs \cup {judgment_id}, spawned |-> TRUE]

\* The executor's worker handles the oldest request sent to it.  The answer
\* reaches the dispatcher only if it is still waiting for it.
ExecHandle(ip, outcome) ==
    /\ inbox[ip] # <<>>
    /\ LET req == Head(inbox[ip])
           r == JudgeJudgment(workdir[ip], req.judgment_id, outcome)
       IN  /\ r.spawned => Pending(pipes) < MaxPipelines
           /\ workdir' = [workdir EXCEPT ![ip] = r.dirs]
           /\ pipes' = [pipes EXCEPT ![ip] =
                           IF r.spawned
                           THEN Append(@, [judgment_id |-> req.judgment_id,
                                           pc |-> "running"])
                           ELSE @]
           /\ disp' = IF req.live THEN [disp EXCEPT !.status = r.status] ELSE disp
    /\ inbox' = [inbox EXCEPT ![ip] = Tail(@)]
    /\ UNCHANGED <<tasks, executors, sink, hb, run,
                   tm, api, judge, ext>>

----------------------------------------------------------------------------
(* Pipeline: submit_result and the cleanup of main *)

NoImpls == [present |-> FALSE, items |-> <<>>]
Impls(items) == [present |-> TRUE, items |-> items]

\* The implementations a passed run may carry: a list, possibly empty.
ImplLists == {[i \in 1..n |-> "impl"] : n \in 0..MaxImpls}

\* The calls of submit_result in main: (result, function_impls).
MainOutcomes ==
    {[result |-> "failed", function_impls |-> NoImpls],
     [result |-> "error", function_impls |-> NoImpls],
     [result |-> "passed", function_impls |-> NoImpls]}
    \cup {[result |-> "passed", function_impls |-> Impls(l)] : l \in ImplLists}

\* submit_result: the JSON body it posts.  function_impls goes in only for
\* passed.
SubmitPayload(result, function_impls) ==
    [kind |-> "object", result |-> result, has_log |-> TRUE,
     function_impls |-> IF result = "passed" /\ function_impls.present
                        THEN function_impls ELSE NoImpls]

\* No request body read (yet).
NoBody ==
    [kind |-> "none", result |-> "", has_log |-> FALSE,
     function_impls |-> NoImpls]

SinkIdle == [pc |-> "idle", ip |-> "", judgment_id |-> 0, status |-> 0,
             body |-> NoBody, web |-> <<>>]

\* A running pipeline of executor ip reaches submit_result; the Manager takes
\* the request.  The pipeline waits for the answer (requests.post blocks).
PipelineSubmit(ip, i) ==
    /\ i \in DOMAIN pipes[ip]
    /\ pipes[ip][i].pc = "running"
    /\ sink.pc = "idle"
    /\ sink' = [pc |-> "received", ip |-> ip,
                judgment_id |-> pipes[ip][i].judgment_id,
                status |-> 0, body |-> NoBody, web |-> <<>>]
    /\ pipes' = [pipes EXCEPT ![ip][i].pc = "waiting"]
    /\ UNCHANGED <<tasks, executors, disp, inbox, workdir, hb, run,
                   tm, api, judge, ext>>

\* The Manager's answer arrives; submit_result logs it and returns; main's
\* finally removes the working directory and the process ends.
PipelineFinish(ip) ==
    /\ sink.pc = "done"
    /\ sink.ip = ip
    /\ \E i \in DOMAIN pipes[ip] :
          /\ pipes[ip][i].pc = "waiting"
          /\ workdir' = [workdir EXCEPT ![ip] = @ \ {pipes[ip][i].judgment_id}]
          /\ pipes' = [pipes EXCEPT ![ip] = RemoveAt(@, i)]
    /\ sink' = SinkIdle
    /\ UNCHANGED <<tasks, executors, disp, inbox, hb, run,
                   tm, api, judge, ext>>

----------------------------------------------------------------------------
(* Manager: the result sink POST /api/judge/{judgment_id}/result *)

\* A faulty sink, for the sensitivity of C7: the row is left as it was.
SetIdleLost(ex, ip) == ex

\* executor.idle = True
SetIdle(ex, ip) ==
    {IF e.ip = ip THEN [e EXCEPT !.idle = TRUE] ELSE e : e \in ex}

\* Lines 66-74: the executor is looked up by remote address; 404 when there
\* is none, else idle=True is committed.
ResultCommit ==
    /\ sink.pc = "received"
    /\ IF ExecutorByIp(executors, sink.ip) = {}
       THEN /\ sink' = [sink EXCEPT !.pc = "done", !.status = 404]
            /\ UNCHANGED executors
       ELSE /\ executors' = SetIdle(executors, sink.ip)
            /\ sink' = [sink EXCEPT !.pc = "committed"]
    /\ UNCHANGED <<tasks, disp, inbox, pipes, workdir, hb, run,
                   tm, api, judge, ext>>

\* What the Web backend does with the requests of one handling: whether the
\* judgment lookup and the verdict POST succeed, and how many
\* function-implementation POSTs succeed before one fails.
WebOutcomes ==
    [lookup : BOOLEAN, verdict : BOOLEAN, impls_ok : 0..MaxImpls]

Min(a, b) == IF a <= b THEN a ELSE b

\* One request of api_client to the Web backend.
WebGet(endpoint) == [req |-> "GET", endpoint |-> endpoint, data |-> ""]
WebPost(endpoint, data) == [req |-> "POST", endpoint |-> endpoint, data |-> data]

\* Lines 76-115, after the commit, for a request whose body is `body': the
\* status answered and the requests made to the Web backend, in order.
ForwardResult(body, wo) ==
    CASE body.kind = "malformed" ->
            \* request.get_json() raises; the outer except answers 500
            [status |-> 500, web |-> <<>>]
      [] body.kind = "null" ->
            [status |-> 400, web |-> <<>>]
      [] body.result = "" \/ ~body.has_log ->
            \* KeyError on result_data['result'] or ['log']
            [status |-> 500, web |-> <<>>]
      [] ~wo.lookup ->
            \* api_client.get is outside the inner try
            [status |-> 500, web |-> <<WebGet("judgments")>>]
      [] ~wo.verdict ->
            [status |-> 200,
             web |-> <<WebGet("judgments"), WebPost("result", body.result)>>]
      [] OTHER ->
            LET impls == body.function_impls
                n == IF impls.present
                     THEN Min(Len(impls.items), wo.impls_ok + 1) ELSE 0
            IN  [status |-> 200,
                 web |-> <<WebGet("judgments"), WebPost("result", body.result)>>
                         \o [i \in 1..n |->
                                WebPost("function_impls", impls.items[i])]]

\* The handler reads the request body first at request.get_json(), here: the
\* body is the input of this step.
ResultForward(body, wo) ==
    /\ sink.pc = "committed"
    /\ LET r == ForwardResult(body, wo)
       IN  sink' = [sink EXCEPT !.pc = "done", !.status = r.status,
                                !.body = body, !.web = r.web]
    /\ UNCHANGED <<tasks, executors, disp, inbox, pipes, workdir, hb, run,
                   tm, api, judge, ext>>

----------------------------------------------------------------------------
(* Manager workers: update_executor_status handled by several gunicorn      *)
(* workers at once, each with its own session on the one SQLite file.       *)

Workers == {"w1", "w2"}

HbIdle == [pc |-> "idle", ip |-> "", json_data |-> "", found |-> 0, status |-> 0]

\* Executor.query.filter_by(ip=ip).first() as the worker keeps it: the id of
\* the row it loaded, 0 for None.
QueryExecutor(ex, ip) ==
    IF ExecutorByIp(ex, ip) = {} THEN 0
    ELSE (CHOOSE e \in ExecutorByIp(ex, ip) : TRUE).id

\* A faulty table, for the sensitivity of C16: column ip without its UNIQUE
\* constraint, the INSERT always goes through.
CommitStatusNoUnique(ex, ip, json_data, found) ==
    [status |-> 200,
     executors |-> IF found = 0
                   THEN ex \cup {[id |-> NextRowId(ex), ip |-> ip,
                                  data |-> json_data, idle |-> TRUE]}
                   ELSE {IF e.id = found THEN [e EXCEPT !.data = json_data]
                         ELSE e : e \in ex}]

\* db.session.commit() of the handler on the table as it is now.  For a new
\* Executor the INSERT fails on UNIQUE(ip) when a row of that ip has been
\* committed since the query; for a loaded one the UPDATE fails when its row
\* is gone.  Either exception is caught: rollback, 500.
CommitStatus(ex, ip, json_data, found) ==
    IF found = 0
    THEN IF ExecutorByIp(ex, ip) # {}
         THEN [status |-> 500, executors |-> ex]
         ELSE [status |-> 200,
               executors |-> ex \cup {[id |-> NextRowId(ex), ip |-> ip,
                                       data |-> json_data, idle |-> TRUE]}]
    ELSE IF \E e \in ex : e.id = found
         THEN [status |-> 200,
               executors |-> {IF e.id = found THEN [e EXCEPT !.data = json_data]
                              ELSE e : e \in ex}]
         ELSE [status |-> 500, executors |-> ex]

\* Lines 123-143 in worker w: the body is read and the row looked up.
StatusQuery(w, ip, data) ==
    /\ hb[w].pc # "queried"
    /\ hb' = [hb EXCEPT ![w] =
                 IF data = None
                 THEN [HbIdle EXCEPT !.pc = "done", !.ip = ip, !.status = 400]
                 ELSE [pc |-> "queried", ip |-> ip, json_data |-> Dumps(data),
                       found |-> QueryExecutor(executors, ip), status |-> 0]]
    /\ UNCHANGED <<tasks, executors, disp, inbox, pipes, workdir, sink, run,
                   tm, api, judge, ext>>

\* Lines 145-154 in worker w.
StatusCommit(w) ==
    /\ hb[w].pc = "queried"
    /\ LET r == CommitStatus(executors, hb[w].ip, hb[w].json_data, hb[w].found)
       IN  /\ r.executors # executors => NextRowId(executors) <= MaxExecutorId
           /\ executors' = r.executors
           /\ hb' = [hb EXCEPT ![w] = [HbIdle EXCEPT !.pc = "done",
                                                     !.ip = hb[w].ip,
                                                     !.status = r.status]]
    /\ UNCHANGED <<tasks, disp, inbox, pipes, workdir, sink, run,
                   tm, api, judge, ext>>

----------------------------------------------------------------------------
(* validate.py: one run of the script, step by step *)

\* How one subprocess.run(..., stdout=PIPE, stderr=STDOUT, check=False,
\* text=True) ends: exit status 0 or not with output that decodes, an exit
\* with output that does not decode (text=True decodes strictly:
\* UnicodeDecodeError), or the program cannot be started (OSError).
SubprocessOutcomes == {"zero", "nonzero", "nonzero_undecodable", "oserror"}

\* Log texts: the captured output of a step, str(e) of an exception, the
\* fixed message of main, the empty string.
Output(step) == [kind |-> "output", of |-> step]
StrOf(exc) == [kind |-> "exception", of |-> exc]
NotAllFound == [kind |-> "message", of |-> "functions not found"]
EmptyLog == [kind |-> "empty", of |-> ""]

\* subprocess.run for `step': the CompletedProcess, or the exception raised.
SubprocessRun(step, outcome) ==
    CASE outcome = "zero" ->
            [raised |-> FALSE, returncode |-> 0, stdout |-> Output(step),
             exc |-> ""]
      [] outcome = "nonzero" ->
            [raised |-> FALSE, returncode |-> 1, stdout |-> Output(step),
             exc |-> ""]
      [] outcome = "nonzero_undecodable" ->
            [raised |-> TRUE, returncode |-> 1, stdout |-> EmptyLog,
             exc |-> "UnicodeDecodeError"]
      [] OTHER ->
            [raised |-> TRUE, returncode |-> 0, stdout |-> EmptyLog,
             exc |-> "OSError"]

\* What the extraction of one required function meets: a definition, no
\* definition, no entry for the source file in compile_commands.json, or an
\* exception inside libclang or the file system.
RequirementCases == {"found", "null", "no_entry", "crash"}

RequirementLists ==
    UNION {[1..n -> RequirementCases] : n \in 0..MaxRequirements}

\* --function-requirements: absent, or the list of requirements.
NoRequirements == [given |-> FALSE, cases |-> <<>>]
RequirementArgs ==
    {NoRequirements} \cup {[given |-> TRUE, cases |-> l] : l \in RequirementLists}

\* The inputs of one run: whether --problem-id is on the command line (the
\* executor's handler always puts it there), whether the log file can be
\* opened, how each subprocess ends, whether a unit test was given, the
\* function requirements, and whether rmtree meets an error.
Envs ==
    [problem_id : BOOLEAN,
     logging : {"ok", "raise"},
     configure : SubprocessOutcomes, build : SubprocessOutcomes,
     unit_test : BOOLEAN,
     test_configure : SubprocessOutcomes, test_build : SubprocessOutcomes,
     test_run : SubprocessOutcomes,
     requirements : RequirementArgs,
     rmtree : {"ok", "error"}]

\* Two subprocesses in a row, each checked for its return code: the steps
\* run, and a return value (ok, log) or the exception that ends it.
RunBoth(env, first, second) ==
    LET p == SubprocessRun(first, env[first])
        q == SubprocessRun(second, env[second])
    IN  CASE p.raised ->
                [raised |-> TRUE, exc |-> p.exc, ok |-> FALSE,
                 log |-> EmptyLog, steps |-> <<first>>]
          [] p.returncode # 0 ->
                [raised |-> FALSE, exc |-> "", ok |-> FALSE,
                 log |-> p.stdout, steps |-> <<first>>]
          [] q.raised ->
                [raised |-> TRUE, exc |-> q.exc, ok |-> FALSE,
                 log |-> EmptyLog, steps |-> <<first, second>>]
          [] q.returncode # 0 ->
                [raised |-> FALSE, exc |-> "", ok |-> FALSE,
                 log |-> q.stdout, steps |-> <<first, second>>]
          [] OTHER ->
                [raised |-> FALSE, exc |-> "", ok |-> TRUE,
                 log |-> EmptyLog, steps |-> <<first, second>>]

\* compile_project: cmake configure, then the build; exceptions pass through.
CompileProject(env) == RunBoth(env, "configure", "build")

\* run_tests: configure and build of the test target, then the test binary;
\* every exception is caught and returned as (False, str(e)).
RunTests(env) ==
    LET b == RunBoth(env, "test_configure", "test_build")
        t == SubprocessRun("test_run", env.test_run)
        caught(r, exc) == [r EXCEPT !.raised = FALSE, !.exc = "",
                                    !.ok = FALSE, !.log = StrOf(exc)]
    IN  CASE b.raised -> caught(b, b.exc)
          [] ~b.ok -> b
          [] t.raised ->
                caught([b EXCEPT !.steps = Append(@, "test_run")], t.exc)
          [] OTHER ->
                [b EXCEPT !.steps = Append(@, "test_run"),
                          !.ok = (t.returncode = 0),
                          !.log = IF t.returncode = 0 THEN EmptyLog
                                  ELSE t.stdout]

\* One call of submit_result, as main makes it.
SubmitCall(result, log, function_impls) ==
    [result |-> result, log |-> log, function_impls |-> function_impls]

\* The text of the RuntimeError that leaves the extraction.
FailedToExtract == "failed to extract function implementation"

\* The implementation text found for the i-th requirement.
ImplOf(i) == <<"impl", i>>

\* A faulty extraction, for the sensitivity of C23: every requirement is
\* reported as found.
ExtractAlwaysFound(i, case) ==
    [raised |-> FALSE, exc |-> "", none |-> FALSE, impl |-> ImplOf(i)]

\* FunctionExtractor.extract_function_implementation for the i-th
\* requirement: the text, None, or a RuntimeError. Without an entry in the
\* compilation database, getCompileCommands(...)[0] raises (TypeError on
\* None, IndexError on an empty list) and the exception is converted; a
\* falsy entry raises RuntimeError directly.
ExtractFunctionImplementation(i, case) ==
    CASE case = "found" ->
            [raised |-> FALSE, exc |-> "", none |-> FALSE, impl |-> ImplOf(i)]
      [] case = "null" ->
            [raised |-> FALSE, exc |-> "", none |-> TRUE, impl |-> <<>>]
      [] OTHER ->
            [raised |-> TRUE, exc |-> FailedToExtract, none |-> FALSE,
             impl |-> <<>>]

\* A faulty loop, for the sensitivity of C24: a requirement without a
\* definition is passed over.
RECURSIVE ExtractSkippingNone(_, _, _)
ExtractSkippingNone(cases, i, function_impls) ==
    IF i > Len(cases)
    THEN [raised |-> FALSE, exc |-> "", none |-> FALSE,
          impls |-> function_impls, tried |-> Len(cases)]
    ELSE LET r == ExtractFunctionImplementation(i, cases[i])
         IN  CASE r.raised ->
                     [raised |-> TRUE, exc |-> r.exc, none |-> FALSE,
                      impls |-> <<>>, tried |-> i]
               [] r.none ->
                     ExtractSkippingNone(cases, i + 1, function_impls)
               [] OTHER ->
                     ExtractSkippingNone(cases, i + 1,
                                         Append(function_impls, r.impl))

\* extract_and_log_functions from requirement i on, with the
\* implementations collected so far: the list, None at the first
\* requirement without a definition, or the RuntimeError of the first
\* extraction that raises; `tried' counts the extractions made.
RECURSIVE ExtractFrom(_, _, _)
ExtractFrom(cases, i, function_impls) ==
    IF i > Len(cases)
    THEN [raised |-> FALSE, exc |-> "", none |-> FALSE,
          impls |-> function_impls, tried |-> Len(cases)]
    ELSE LET r == ExtractFunctionImplementation(i, cases[i])
         IN  CASE r.raised ->
                     [raised |-> TRUE, exc |-> r.exc, none |-> FALSE,
                      impls |-> <<>>, tried |-> i]
               [] r.none ->
                     [raised |-> FALSE, exc |-> "", none |-> TRUE,
                      impls |-> <<>>, tried |-> i]
               [] OTHER ->
                     ExtractFrom(cases, i + 1, Append(function_impls, r.impl))

ExtractAndLogFunctions(cases) == ExtractFrom(cases, 1, <<>>)

\* A faulty ending, for the sensitivity of C22: the directory is removed
\* before the result is submitted.
CleanupFirst(env, steps, call) ==
    [steps |-> steps, submits |-> <<call>>,
     events |-> <<"rmtree", "submit">>,
     left |-> (env.rmtree = "error")]

\* How main ends once it has called submit_result: the finally clause calls
\* shutil.rmtree(template_dir, ignore_errors=True), which leaves behind what
\* it cannot remove and raises nothing.
Finally(env, steps, call) ==
    [steps |-> steps, submits |-> <<call>>,
     events |-> <<"submit", "rmtree">>,
     left |-> (env.rmtree = "error")]

\* main: the steps it runs, its calls of submit_result, and the events of
\* the run in order ("submit", then "rmtree" from the finally clause);
\* `left' tells whether the working directory is still there at the end.
Main(env) ==
    LET c == CompileProject(env)
        t == RunTests(env)
        x == ExtractAndLogFunctions(env.requirements.cases)
        afterCompile == c.steps
        afterTests == IF env.unit_test THEN c.steps \o t.steps ELSE c.steps
        withExtract == IF env.requirements.given
                       THEN afterTests \o [k \in 1..x.tried |-> "extract"]
                       ELSE afterTests
        finally(steps, call) == Finally(env, steps, call)
    IN  CASE c.raised ->
                finally(afterCompile,
                        SubmitCall("error", StrOf(c.exc), NoImpls))
          [] ~c.ok ->
                finally(afterCompile, SubmitCall("failed", c.log, NoImpls))
          [] env.unit_test /\ ~t.ok ->
                finally(afterTests, SubmitCall("failed", t.log, NoImpls))
          [] env.requirements.given /\ x.raised ->
                finally(withExtract,
                        SubmitCall("error", StrOf(x.exc), NoImpls))
          [] env.requirements.given /\ x.none ->
                finally(withExtract,
                        SubmitCall("failed", NotAllFound, NoImpls))
          [] OTHER ->
                finally(withExtract,
                        SubmitCall("passed", EmptyLog,
                                   IF env.requirements.given
                                   THEN Impls(x.impls) ELSE NoImpls))

\* The script from its first line: parse_args knows --judgment-id,
\* --temp-dir, --unit-test and --function-requirements and exits with
\* status 2 on any other argument; logging.basicConfig then opens
\* LOG_DIR/{judgment_id}.log; both come before main, outside every try.
RunScript(env) ==
    IF env.problem_id \/ env.logging = "raise"
    THEN [steps |-> <<>>, submits |-> <<>>, events |-> <<>>, left |-> TRUE]
    ELSE Main(env)

RunIdle == [pc |-> "none"]

\* The process runs to its end.
Validate ==
    /\ run.pc = "start"
    /\ LET r == RunScript(run.env)
       IN  run' = [run EXCEPT !.pc = "exit", !.steps = r.steps,
                              !.submits = r.submits, !.events = r.events,
                              !.left = r.left]
    /\ UNCHANGED <<tasks, executors, disp, inbox, pipes, workdir, sink, hb,
                   tm, api, judge, ext>>

----------------------------------------------------------------------------
(* The parts of an executor that are followed one call at a time *)

TmIdle == [pc |-> "none"]
ApiIdle == [pc |-> "none"]
JudgeIdle == [pc |-> "none"]
ExtIdle == [pc |-> "none"]

\* None of them is in use.
OthersIdle ==
    /\ tm = TmIdle
    /\ api = ApiIdle
    /\ judge = JudgeIdle
    /\ ext = ExtIdle

----------------------------------------------------------------------------
(* The fleet *)

Init ==
    /\ tasks = <<>>
    /\ executors = {}
    /\ disp = DispSleep
    /\ inbox = [ip \in IPs |-> <<>>]
    /\ pipes = [ip \in IPs |-> <<>>]
    /\ workdir = [ip \in IPs |-> {}]
    /\ sink = SinkIdle
    /\ hb = [w \in Workers |-> HbIdle]
    /\ run = RunIdle
    /\ OthersIdle

Next ==
    \/ \E j \in JudgmentIds : Intake(j)
    \/ \E ip \in IPs, alive \in BOOLEAN : Heartbeat(ip, alive)
    \/ DispatchTick
    \/ DispatchAssign
    \/ DispatchReap
    \/ \E kind \in {"timeout", "connection"} : DispatchException(kind)
    \/ \E ip \in IPs, o \in HandlerOutcomes : ExecHandle(ip, o)
    \/ \E ip \in IPs, i \in 1..MaxPipelines : PipelineSubmit(ip, i)
    \/ \E ip \in IPs : PipelineFinish(ip)
    \/ ResultCommit
    \/ \E out \in MainOutcomes, wo \in WebOutcomes :
          ResultForward(SubmitPayload(out.result, out.function_impls), wo)

Spec == Init /\ [][Next]_vars

----------------------------------------------------------------------------
(* The result sink alone: one result request from any client at an executor *)
(* address, against the tables the fleet can leave.                         *)

\* Request bodies: not JSON at all, JSON null, or an object with or without
\* result, log and function_impls.
AnyBodies ==
    {[kind |-> "malformed", result |-> "", has_log |-> FALSE,
      function_impls |-> NoImpls],
     [kind |-> "null", result |-> "", has_log |-> FALSE,
      function_impls |-> NoImpls]}
    \cup [kind : {"object"}, result : {"passed", "failed", "error", ""},
          has_log : BOOLEAN,
          function_impls : {NoImpls} \cup {Impls(l) : l \in ImplLists}]

AliveData == Dumps(CollectStatus(TRUE))

SinkTables ==
    {{}}
    \cup {{[id |-> 1, ip |-> ip, data |-> AliveData, idle |-> b]} :
             ip \in IPs, b \in BOOLEAN}
    \cup {{[id |-> 1, ip |-> "10.0.0.2", data |-> AliveData, idle |-> a],
           [id |-> 2, ip |-> "10.0.0.3", data |-> AliveData, idle |-> b]} :
             a \in BOOLEAN, b \in BOOLEAN}

InitSink ==
    /\ tasks \in {<<>>, AddTask(<<>>, 42)}
    /\ executors \in SinkTables
    /\ disp = DispSleep
    /\ inbox = [ip \in IPs |-> <<>>]
    /\ pipes = [ip \in IPs |-> <<>>]
    /\ workdir = [ip \in IPs |-> {}]
    /\ sink \in {[pc |-> "received", ip |-> ip, judgment_id |-> 42,
                  status |-> 0, body |-> NoBody, web |-> <<>>] : ip \in IPs}
    /\ hb = [w \in Workers |-> HbIdle]
    /\ run = RunIdle
    /\ OthersIdle

NextSink ==
    \/ ResultCommit
    \/ \E body \in AnyBodies, wo \in WebOutcomes : ResultForward(body, wo)

SinkSpec == InitSink /\ [][NextSink]_vars

----------------------------------------------------------------------------
(* Intake and dispatch alone, with two judgments: the queue, the registry,  *)
(* the dispatcher and the executors' intake handlers.  Pipelines that were  *)
(* started keep running.                                                     *)

IntakeIds == {42, 43}

NextIntake ==
    \/ \E j \in IntakeIds : Intake(j)
    \/ \E ip \in IPs, alive \in BOOLEAN : Heartbeat(ip, alive)
    \/ DispatchTick
    \/ DispatchAssign
    \/ DispatchReap
    \/ \E kind \in {"timeout", "connection"} : DispatchException(kind)
    \/ \E ip \in IPs, o \in HandlerOutcomes : ExecHandle(ip, o)

IntakeSpec == Init /\ [][NextIntake]_vars

----------------------------------------------------------------------------
(* The registry under any client: status reports of every JSON shape, with   *)
(* intake, the dispatcher and the executors' intake handlers.                *)

\* What a client can post to /api/judge/executors: no JSON (get_json gives
\* None), a JSON value that is no object, an object with is_alive true or
\* false, an object without is_alive.
AnyStatus ==
    {None, PyNumber, PyObject("true"), PyObject("false"), PyObject("absent")}

\* One POST /api/judge/executors from address ip with body `data'.
StatusPost(ip, data) ==
    LET r == UpdateExecutorStatus(executors, ip, data)
    IN  /\ ExecutorByIp(executors, ip) = {} => NextRowId(executors) <= MaxExecutorId
        /\ executors' = r.executors
        /\ UNCHANGED <<tasks, disp, inbox, pipes, workdir, sink, hb, run,
                       tm, api, judge, ext>>

NextRegistry ==
    \/ \E j \in JudgmentIds : Intake(j)
    \/ \E ip \in IPs, data \in AnyStatus : StatusPost(ip, data)
    \/ DispatchTick
    \/ DispatchAssign
    \/ DispatchReap
    \/ \E kind \in {"timeout", "connection"} : DispatchException(kind)
    \/ \E ip \in IPs, o \in HandlerOutcomes : ExecHandle(ip, o)

RegistrySpec == Init /\ [][NextRegistry]_vars

----------------------------------------------------------------------------
(* The registry with two Manager workers: status reports handled in two     *)
(* steps each, with intake and a dispatcher whose requests all fail (the    *)
(* executors answer 500, or not in time): rows come and go.                 *)

NextWorkers ==
    \/ \E j \in JudgmentIds : Intake(j)
    \/ \E w \in Workers, ip \in IPs, alive \in BOOLEAN :
          StatusQuery(w, ip, CollectStatus(alive))
    \/ \E w \in Workers : StatusCommit(w)
    \/ DispatchTick
    \/ DispatchReap
    \/ \E kind \in {"timeout", "connection"} : DispatchException(kind)
    \/ \E ip \in IPs : ExecHandle(ip, "fetch_error")

WorkersSpec == Init /\ [][NextWorkers]_vars

----------------------------------------------------------------------------
(* The fleet with restarts of the Manager *)

\* A faulty start, for the sensitivity of C17: table executors is kept.
KeepTable(rows) == rows

\* create_app: db.session.execute(table.delete()) for each table, committed.
ClearTasks(ts) == <<>>
ClearExecutors(ex) == {}

\* The Manager stops and starts again (cli.manager): the dispatcher process
\* is terminated with it, create_app empties both tables, and a new
\* dispatcher starts.  Requests the old dispatcher had sent stay with the
\* executors, answered to nobody; a result request that was being handled is
\* cut off, and its sender sees the connection fail.
ManagerRestart ==
    /\ tasks' = ClearTasks(tasks)
    /\ executors' = ClearExecutors(executors)
    /\ disp' = DispSleep
    /\ inbox' = [ip \in IPs |->
                    [i \in DOMAIN inbox[ip] |-> [inbox[ip][i] EXCEPT !.live = FALSE]]]
    /\ sink' = IF sink.pc \in {"received", "committed"}
               THEN [sink EXCEPT !.pc = "done", !.status = 0]
               ELSE sink
    /\ UNCHANGED <<pipes, workdir, hb, run,
                   tm, api, judge, ext>>

NextRestart ==
    \/ Next
    \/ ManagerRestart

RestartSpec == Init /\ [][NextRestart]_vars

----------------------------------------------------------------------------
(* Intake and dispatch with a dispatcher and executors that keep running:   *)
(* the loop of distribute_tasks takes its next step (while True, sleep 5 s, *)
(* POST with a 5 s timeout), and an executor's worker handles the requests  *)
(* it holds.                                                                 *)

FairSpec ==
    /\ IntakeSpec
    /\ WF_vars(DispatchTick)
    /\ WF_vars(DispatchAssign)
    /\ WF_vars(DispatchReap)
    /\ WF_vars(\E ip \in IPs, o \in HandlerOutcomes : ExecHandle(ip, o))

(* The fleet with one executor that behaves: it sends heartbeats with       *)
(* is_alive true, its handler answers every dispatch request with 202      *)
(* before the timeout, and each of its pipelines posts its result, which   *)
(* the Manager handles to the end.  The dispatcher's thread keeps looping. *)

SteadyExecutor == "10.0.0.2"

NextSteady ==
    \/ \E j \in JudgmentIds : Intake(j)
    \/ Heartbeat(SteadyExecutor, TRUE)
    \/ DispatchTick
    \/ DispatchAssign
    \/ ExecHandle(SteadyExecutor, "spawn")
    \/ \E i \in 1..MaxPipelines : PipelineSubmit(SteadyExecutor, i)
    \/ PipelineFinish(SteadyExecutor)
    \/ ResultCommit
    \/ \E out \in MainOutcomes, wo \in WebOutcomes :
          ResultForward(SubmitPayload(out.result, out.function_impls), wo)

SteadySpec ==
    /\ Init
    /\ [][NextSteady]_vars
    /\ WF_vars(Heartbeat(SteadyExecutor, TRUE))
    /\ WF_vars(DispatchTick)
    /\ WF_vars(DispatchAssign)
    /\ WF_vars(ExecHandle(SteadyExecutor, "spawn"))
    /\ WF_vars(\E i \in 1..MaxPipelines : PipelineSubmit(SteadyExecutor, i))
    /\ WF_vars(PipelineFinish(SteadyExecutor))
    /\ WF_vars(ResultCommit)
    /\ WF_vars(\E out \in MainOutcomes, wo \in WebOutcomes :
                  ResultForward(SubmitPayload(out.result, out.function_impls), wo))

----------------------------------------------------------------------------
(* One run of validate.py on every input *)

InitPipeline ==
    /\ tasks = <<>>
    /\ executors = {}
    /\ disp = DispSleep
    /\ inbox = [ip \in IPs |-> <<>>]
    /\ pipes = [ip \in IPs |-> <<>>]
    /\ workdir = [ip \in IPs |-> {}]
    /\ sink = SinkIdle
    /\ hb = [w \in Workers |-> HbIdle]
    /\ run \in {[pc |-> "start", env |-> e, steps |-> <<>>, submits |-> <<>>,
                  events |-> <<>>, left |-> TRUE] : e \in Envs}
    /\ OthersIdle

PipelineSpec == InitPipeline /\ [][Validate]_vars

----------------------------------------------------------------------------
(* The fleet at rest, while one part of an executor is followed *)

FleetIdle ==
    /\ tasks = <<>>
    /\ executors = {}
    /\ disp = DispSleep
    /\ inbox = [ip \in IPs |-> <<>>]
    /\ pipes = [ip \in IPs |-> <<>>]
    /\ workdir = [ip \in IPs |-> {}]
    /\ sink = SinkIdle
    /\ hb = [w \in Workers |-> HbIdle]
    /\ run = RunIdle

fleet == <<tasks, executors, disp, inbox, pipes, workdir, sink, hb, run>>

----------------------------------------------------------------------------
(* Templates: successive judge requests in one executor process *)

TemplateIds == {"t1", "t2"}

\* updated_at values are points in time 1..MaxUpdatedAt; NoEntry stands
\* for "no copy".
NoEntry == 0

\* TemplateManager.__init__: the cache dictionary starts empty.
NewTemplateManager == [template_cache |-> [t \in TemplateIds |-> NoEntry]]

\* TemplateManager.get_template after the template information has been
\* read: the cached entry is used when there is one and its time is not
\* older than the remote one; otherwise _download_template fetches the
\* archive and stores the entry.
GetTemplate(manager, template_id, updated_at) ==
    LET cache_entry == manager.template_cache[template_id]
    IN  IF cache_entry # NoEntry /\ cache_entry >= updated_at
        THEN [manager |-> manager, downloaded |-> FALSE]
        ELSE [manager |-> [manager EXCEPT
                              !.template_cache[template_id] = updated_at],
              downloaded |-> TRUE]

\* judge_judgment, as far as the template goes: a new APIClient and a new
\* TemplateManager are made for the request, and get_template is called on
\* that manager. `last' records what the request met and did.
JudgeTemplate(template_id) ==
    /\ tm.pc = "serving"
    /\ LET template_manager == NewTemplateManager
           r == GetTemplate(template_manager, template_id,
                            tm.remote[template_id])
       IN  tm' = [tm EXCEPT
                    !.disk[template_id] =
                        IF r.downloaded THEN tm.remote[template_id] ELSE @,
                    !.last = [template_id |-> template_id,
                              held |-> tm.disk[template_id],
                              remote |-> tm.remote[template_id],
                              downloaded |-> r.downloaded]]
    /\ UNCHANGED <<fleet, api, judge, ext>>

\* The Web backend gets a newer version of a template.
TemplateUpdated(template_id) ==
    /\ tm.pc = "serving"
    /\ tm.remote[template_id] < MaxUpdatedAt
    /\ tm' = [tm EXCEPT !.remote[template_id] = @ + 1]
    /\ UNCHANGED <<fleet, api, judge, ext>>

InitTemplates ==
    /\ FleetIdle
    /\ tm = [pc |-> "serving",
             remote |-> [t \in TemplateIds |-> 1],
             disk |-> [t \in TemplateIds |-> NoEntry],
             last |-> [template_id |-> "", held |-> NoEntry,
                       remote |-> NoEntry, downloaded |-> FALSE]]
    /\ api = ApiIdle
    /\ judge = JudgeIdle
    /\ ext = ExtIdle

NextTemplates ==
    \E template_id \in TemplateIds :
        \/ JudgeTemplate(template_id)
        \/ TemplateUpdated(template_id)

TemplateSpec == InitTemplates /\ [][NextTemplates]_vars

----------------------------------------------------------------------------
(* TemplateManager._download_template on every archive *)

\* What the unpacked archive leaves at the top of the template's directory,
\* as extracted_dir.iterdir() lists it (template.zip is gone by then):
\* directories and plain files.
Entries == {"dir", "file"}
Contents == UNION {[1..n -> Entries] : n \in 0..MaxEntries}

\* _download_template from line 84 on, the archive downloaded and unpacked:
\* more than one entry raises RuntimeError; contents[0] of an empty list
\* raises IndexError; otherwise the first entry, whatever it is, is stored
\* as the template's path and the call returns.
DownloadTemplate(manager, template_id, updated_at, contents) ==
    CASE Len(contents) > 1 ->
            [manager |-> manager, outcome |-> "RuntimeError", path |-> ""]
      [] Len(contents) = 0 ->
            [manager |-> manager, outcome |-> "IndexError", path |-> ""]
      [] OTHER ->
            [manager |-> [manager EXCEPT
                             !.template_cache[template_id] = updated_at],
             outcome |-> "returned", path |-> contents[1]]

\* One call on the manager of a request.
DownloadCall ==
    /\ tm.pc = "start"
    /\ LET r == DownloadTemplate(tm.manager, tm.template_id, tm.updated_at,
                                 tm.contents)
       IN  tm' = [tm EXCEPT !.pc = "done", !.manager = r.manager,
                            !.outcome = r.outcome, !.path = r.path]
    /\ UNCHANGED <<fleet, api, judge, ext>>

InitDownload ==
    /\ FleetIdle
    /\ tm \in [pc : {"start"}, manager : {NewTemplateManager},
                template_id : TemplateIds, updated_at : 1..MaxUpdatedAt,
                contents : Contents, outcome : {"none"}, path : {""}]
    /\ api = ApiIdle
    /\ judge = JudgeIdle
    /\ ext = ExtIdle

DownloadSpec == InitDownload /\ [][DownloadCall]_vars

----------------------------------------------------------------------------
(* APIClient._request: one call *)

\* What the token file holds when the call starts: nothing readable, an
\* access token with a refresh token, or an access token alone.
TokenFiles == {"none", "full", "no_refresh"}

\* How a request to the endpoint ends: a status code, or no response at all
\* (connection error, timeout).
Responses == {"200", "401", "500", "error"}

ApiEnvs ==
    [tokens : TokenFiles,
     first : Responses, second : Responses,
     refresh : {"ok", "fail"}, login : {"ok", "fail"}]

\* TokenManager._login: POST /login; on success the tokens are saved, on
\* failure a RequestException leaves the method.
Login(env) ==
    [trace |-> <<"login">>, raised |-> env.login = "fail",
     tokens |-> IF env.login = "ok" THEN "full" ELSE "none"]

\* TokenManager.get_access_token: the stored tokens, or a login when there
\* are none.
GetAccessToken(tokens, env) ==
    IF tokens = "none"
    THEN Login(env)
    ELSE [trace |-> <<>>, raised |-> FALSE, tokens |-> tokens]

\* A faulty refresh, for the sensitivity of C27: a refused refresh is not
\* followed by a login.
RefreshWithoutLogin(tokens, env) ==
    IF tokens # "full"
    THEN Login(env)
    ELSE [trace |-> <<"refresh">>, raised |-> env.refresh = "fail",
          tokens |-> tokens]

\* TokenManager.refresh_tokens: a login when no refresh token is stored;
\* otherwise POST /refresh, and a login when that fails.
RefreshTokens(tokens, env) ==
    CASE tokens # "full" -> Login(env)
      [] env.refresh = "ok" ->
            [trace |-> <<"refresh">>, raised |-> FALSE, tokens |-> "full"]
      [] OTHER ->
            [Login(env) EXCEPT !.trace = <<"refresh", "login">>,
                               !.tokens = IF env.login = "ok" THEN "full"
                                          ELSE tokens]

\* What raise_for_status and the except clause make of the last response.
Surface(response) ==
    IF response = "200" THEN "response" ELSE "APIRequestError"

\* APIClient._request: the requests sent, in order ("request" is one to the
\* endpoint), and how the call ends: the response is returned,
\* APIRequestError is raised, or the RequestException of a login made for
\* the first headers leaves the method as it is (line 46 is outside the
\* try).
Request(env) ==
    LET h == GetAccessToken(env.tokens, env)
        r == RefreshTokens(h.tokens, env)
        h2 == GetAccessToken(r.tokens, env)
        sent == h.trace \o <<"request">>
    IN  CASE h.raised ->
                [trace |-> h.trace, outcome |-> "RequestException"]
          [] env.first # "401" ->
                [trace |-> sent, outcome |-> Surface(env.first)]
          [] r.raised ->
                [trace |-> sent \o r.trace, outcome |-> "APIRequestError"]
          [] h2.raised ->
                [trace |-> sent \o r.trace \o h2.trace,
                 outcome |-> "APIRequestError"]
          [] OTHER ->
                [trace |-> sent \o r.trace \o h2.trace \o <<"request">>,
                 outcome |-> Surface(env.second)]

\* The call runs to its end.
ApiCall ==
    /\ api.pc = "start"
    /\ LET r == Request(api.env)
       IN  api' = [api EXCEPT !.pc = "done", !.trace = r.trace,
                              !.outcome = r.outcome]
    /\ UNCHANGED <<fleet, tm, judge, ext>>

InitApi ==
    /\ FleetIdle
    /\ tm = TmIdle
    /\ api \in {[pc |-> "start", env |-> e, trace |-> <<>>, outcome |-> ""] :
                  e \in ApiEnvs}
    /\ judge = JudgeIdle
    /\ ext = ExtIdle

ApiSpec == InitApi /\ [][ApiCall]_vars

----------------------------------------------------------------------------
(* The executor's judge handler: one call *)

\* The steps of judge_judgment in the order of the code: the five reads from
\* the Web backend, saving the archive, removing an old working directory,
\* getting the template, copying it, unpacking the submission into it,
\* reading the function requirements, and starting validate.py.
HandlerSteps ==
    <<"judgment", "submission", "problem", "code", "attachment", "save_zip",
      "prepare", "template", "copytree", "unpack", "requirements", "spawn">>

StepNames == {HandlerSteps[k] : k \in DOMAIN HandlerSteps}

\* One call: the step that fails, if any, and with which kind of exception;
\* whether the problem has a unit test; how many function requirements the
\* backend lists.
JudgeEnvs ==
    [failing : StepNames \cup {"none"},
     exception : {"APIRequestError", "Exception"},
     unit_test : BOOLEAN,
     requirements : 0..MaxRequirements]

\* The steps up to and including step number k.
Upto(k) == SubSeq(HandlerSteps, 1, k)

\* The position of a step.
StepIndex(step) == CHOOSE k \in DOMAIN HandlerSteps : HandlerSteps[k] = step

\* The answer of the except clauses: {'error': msg} for APIRequestError,
\* {'error_message': ...} for any other exception, both with 500.
Answer500(env, steps) ==
    [status |-> 500,
     body |-> IF env.exception = "APIRequestError" THEN "error"
              ELSE "error_message",
     steps |-> steps, spawned |-> FALSE,
     args |-> [unit_test |-> FALSE, function_requirements |-> FALSE]]

\* The answer after Popen: 202, with the arguments given to validate.py.
Answer202(env, function_requirements) ==
    [status |-> 202, body |-> "empty", steps |-> HandlerSteps,
     spawned |-> TRUE,
     args |-> [unit_test |-> env.unit_test,
               function_requirements |-> function_requirements]]

\* judge_judgment, step by step. An exception while the function
\* requirements are read is caught by the inner try (lines 111-113) and the
\* call goes on without them; every other exception ends the call in one of
\* the outer except clauses.
JudgeRequest(env) ==
    CASE env.failing = "none" ->
            Answer202(env, env.requirements > 0)
      [] env.failing = "requirements" ->
            Answer202(env, FALSE)
      [] OTHER ->
            Answer500(env, Upto(StepIndex(env.failing)))

\* The call runs to its end.
JudgeCall ==
    /\ judge.pc = "start"
    /\ LET r == JudgeRequest(judge.env)
       IN  judge' = [judge EXCEPT !.pc = "done", !.answer = r]
    /\ UNCHANGED <<fleet, tm, api, ext>>

InitJudge ==
    /\ FleetIdle
    /\ tm = TmIdle
    /\ api = ApiIdle
    /\ judge \in {[pc |-> "start", env |-> e,
                   answer |-> Answer500(e, <<>>)] : e \in JudgeEnvs}
    /\ ext = ExtIdle

JudgeSpec == InitJudge /\ [][JudgeCall]_vars

----------------------------------------------------------------------------
(* FunctionExtractor._find_function_signature *)

\* Type names and their canonical spellings: myint is a typedef of int.
TypeNames == {"int", "myint", "void"}
Canonical(type_name) == IF type_name = "myint" THEN "int" ELSE type_name

\* cursor.semantic_parent of a function at file scope.
TranslationUnit == [kind |-> "TRANSLATION_UNIT", spelling |-> "a.cpp"]

\* The cursors of a translation unit that matter to the search: kind,
\* spelling, semantic parent, result type, parameters (name and type), and
\* whether a body follows.
Cursors ==
    [kind : {"FUNCTION_DECL", "CXX_METHOD", "FUNCTION_TEMPLATE"},
     spelling : {"f", "g"},
     semantic_parent : {TranslationUnit},
     result_type : TypeNames,
     arguments : {<<>>, <<[spelling |-> "x", type |-> "int"]>>},
     definition : BOOLEAN]

\* cursor.get_children(): one PARM_DECL per parameter, then the
\* COMPOUND_STMT of a definition.
GetChildren(cursor) ==
    [k \in DOMAIN cursor.arguments |-> "PARM_DECL"]
        \o (IF cursor.definition THEN <<"COMPOUND_STMT">> ELSE <<>>)

\* The signature asked for: int f() under the typedef name.
Signature == [name |-> "f", return_type |-> "myint", parameters |-> <<>>]

\* The names a signature may carry: a function, a method of a class, a
\* method of a class in a namespace.
Names == {"f", "C::f", "N::C::f"}

\* name.split('::')
Split(name) ==
    CASE name = "C::f" -> <<"C", "f">>
      [] name = "N::C::f" -> <<"N", "C", "f">>
      [] OTHER -> <<name>>

\* '::' in name
HasScope(name) == Len(Split(name)) > 1

\* Lines 264-265: a name with more than one "::" raises ValueError.
RaisesValueError(function_signature) ==
    Len(Split(function_signature.name)) > 2

\* A cursor that has no semantic parent (None).
NoParent == [kind |-> "None", spelling |-> ""]

\* A faulty test, for the sensitivity of C38: the kind of the semantic
\* parent is not looked at.
MatchAnyParentKind(cursor, function_signature) ==
    LET name == function_signature.name
        parts == Split(name)
    IN  /\ IF HasScope(name)
           THEN /\ cursor.spelling = parts[2]
                /\ cursor.semantic_parent # NoParent
                /\ cursor.semantic_parent.spelling = parts[1]
           ELSE cursor.spelling = name
        /\ Canonical(cursor.result_type)
              = Canonical(function_signature.return_type)
        /\ Len(cursor.arguments) = Len(function_signature.parameters)
        /\ \A k \in DOMAIN cursor.arguments :
              Canonical(cursor.arguments[k].type)
                  = Canonical(function_signature.parameters[k].type)

\* _is_function_match when it returns (no ValueError): the name (for a name
\* with "::", the method name and the class or struct that is the semantic
\* parent), the canonical result type, the number of parameters, the
\* canonical type of each parameter.
IsFunctionMatch(cursor, function_signature) ==
    LET name == function_signature.name
        parts == Split(name)
    IN  /\ IF HasScope(name)
           THEN /\ cursor.spelling = parts[2]
                /\ cursor.semantic_parent # NoParent
                /\ cursor.semantic_parent.kind \in {"CLASS_DECL", "STRUCT_DECL"}
                /\ cursor.semantic_parent.spelling = parts[1]
           ELSE cursor.spelling = name
        /\ Canonical(cursor.result_type)
              = Canonical(function_signature.return_type)
        /\ Len(cursor.arguments) = Len(function_signature.parameters)
        /\ \A k \in DOMAIN cursor.arguments :
              Canonical(cursor.arguments[k].type)
                  = Canonical(function_signature.parameters[k].type)

\* A faulty test, for the sensitivity of C29: every cursor counts as a
\* definition.
BodyNotChecked(cursor) == TRUE

\* The inner loop: a child of kind COMPOUND_STMT exists.
HasBody(cursor) ==
    \E k \in DOMAIN GetChildren(cursor) : GetChildren(cursor)[k] = "COMPOUND_STMT"

\* The loop over walk_preorder() from position i on: the position of the
\* cursor returned, NoCursor for None.
NoCursor == 0
RECURSIVE FindFrom(_, _, _)
FindFrom(preorder, i, function_signature) ==
    IF i > Len(preorder)
    THEN NoCursor
    ELSE LET cursor == preorder[i]
         IN  IF /\ cursor.kind \in {"FUNCTION_DECL", "CXX_METHOD"}
                /\ IsFunctionMatch(cursor, function_signature)
                /\ HasBody(cursor)
             THEN i
             ELSE FindFrom(preorder, i + 1, function_signature)

FindFunctionSignature(preorder, function_signature) ==
    FindFrom(preorder, 1, function_signature)

\* The call runs to its end.
FindCall ==
    /\ ext.pc = "start"
    /\ ext' = [ext EXCEPT
                 !.pc = "done",
                 !.found = FindFunctionSignature(ext.preorder, Signature)]
    /\ UNCHANGED <<fleet, tm, api, judge>>

InitFind ==
    /\ FleetIdle
    /\ tm = TmIdle
    /\ api = ApiIdle
    /\ judge = JudgeIdle
    /\ ext \in {[pc |-> "start", preorder |-> p, found |-> NoCursor] :
                  p \in UNION {[1..n -> Cursors] : n \in 0..MaxCursors}}

FindSpec == InitFind /\ [][FindCall]_vars

----------------------------------------------------------------------------
(* FunctionExtractor._is_function_match on every cursor and signature *)

\* The names of parameters, in the source and in the requirement.
ParameterNames == {"x", "y"}

\* A parameter of a cursor (spelling, type) and of a signature (name, type).
Arguments ==
    UNION {[1..n -> [spelling : ParameterNames, type : TypeNames]] :
             n \in 0..MaxParameters}
Parameters ==
    UNION {[1..n -> [name : ParameterNames, type : TypeNames]] :
             n \in 0..MaxParameters}

\* The semantic parents a function cursor can have: none, the translation
\* unit, a namespace, a class, a struct.
Parents ==
    {NoParent, TranslationUnit}
    \cup [kind : {"NAMESPACE", "CLASS_DECL", "STRUCT_DECL"},
          spelling : {"C", "D"}]

MatchCursors ==
    [kind : {"FUNCTION_DECL", "CXX_METHOD"},
     spelling : {"f", "g"},
     semantic_parent : Parents,
     result_type : TypeNames,
     arguments : Arguments,
     definition : {TRUE}]

Signatures ==
    [name : Names, return_type : TypeNames, parameters : Parameters]

\* One call of _is_function_match: True, False or the ValueError.
MatchCall ==
    /\ ext.pc = "start"
    /\ ext' = [ext EXCEPT
                 !.pc = "done",
                 !.result =
                    IF RaisesValueError(ext.signature) THEN "ValueError"
                    ELSE IF IsFunctionMatch(ext.cursor, ext.signature)
                         THEN "True" ELSE "False"]
    /\ UNCHANGED <<fleet, tm, api, judge>>

InitMatch ==
    /\ FleetIdle
    /\ tm = TmIdle
    /\ api = ApiIdle
    /\ judge = JudgeIdle
    /\ ext \in [pc : {"start"}, cursor : MatchCursors,
                 signature : Signatures, result : {"none"}]

MatchSpec == InitMatch /\ [][MatchCall]_vars

----------------------------------------------------------------------------
(* FunctionExtractor._extract_function_body *)

\* A source file as f.readlines() returns it: a list of lines, each with its
\* newline at the end.
Chars == {"a", "b"}
Newline == "\n"
LineTexts == UNION {[1..n -> Chars] : n \in 0..MaxColumns}
SourceFiles ==
    UNION {[1..n -> {Append(t, Newline) : t \in LineTexts}] : n \in 1..MaxLines}

\* Positions of characters, lines and columns counted from 1 as libclang
\* counts them; Before is the order of the text.
Locations(lines) ==
    {loc \in [line : DOMAIN lines, column : 1..MaxColumns] :
        loc.column < Len(lines[loc.line])}
Before(a, b) ==
    \/ a.line < b.line
    \/ a.line = b.line /\ a.column < b.column

\* text[a:b] as Python slices a list, with indices counted from 0 and the
\* end cut off at the length.
Slice(text, a, b) ==
    SubSeq(text, a + 1, IF b < Len(text) THEN b ELSE Len(text))

\* ''.join of the lines i..j.
RECURSIVE Join(_, _, _)
Join(lines, i, j) ==
    IF i > j THEN <<>> ELSE lines[i] \o Join(lines, i + 1, j)

\* The splice of lines 353-376 for a function cursor whose extent starts at
\* start_location and a body whose extent ends at end_location.
ExtractFunctionBody(lines, start_location, end_location) ==
    LET start_line == start_location.line - 1
        start_column == start_location.column - 1
        end_line == end_location.line - 1
        end_column == end_location.column
    IN  IF start_line = end_line
        THEN Slice(lines[start_line + 1], start_column, end_column)
        ELSE Slice(lines[start_line + 1], start_column,
                   Len(lines[start_line + 1]))
                 \o <<Newline>>
                 \o Join(lines, start_line + 2, end_line)
                 \o Slice(lines[end_line + 1], 0, end_column)

\* The call runs to its end.
BodyCall ==
    /\ ext.pc = "start"
    /\ ext' = [ext EXCEPT
                 !.pc = "done",
                 !.text = ExtractFunctionBody(ext.lines, ext.start, ext.end)]
    /\ UNCHANGED <<fleet, tm, api, judge>>

InitBody ==
    /\ FleetIdle
    /\ tm = TmIdle
    /\ api = ApiIdle
    /\ judge = JudgeIdle
    /\ ext \in {[pc |-> "start", lines |-> f, start |-> a, end |-> b,
                 text |-> <<>>] :
                  f \in SourceFiles,
                  a \in [line : 1..MaxLines, column : 1..MaxColumns],
                  b \in [line : 1..MaxLines, column : 1..MaxColumns]}
    /\ ext.start \in Locations(ext.lines)
    /\ ext.end \in Locations(ext.lines)
    /\ Before(ext.start, ext.end)

BodySpec == InitBody /\ [][BodyCall]_vars

----------------------------------------------------------------------------
(* Claims *)

\* C1: tasks leave the queue in the order their intake was committed: the
\* rows' ids grow in commit order, the dispatcher's attempt is always for the
\* row at the head of the queue, and a step that removes a row removes the
\* head.
C1_Fifo ==
    /\ [](/\ \A i \in 1..Len(tasks), j \in 1..Len(tasks) :
                i < j => tasks[i].id < tasks[j].id
          /\ disp.pc = "posted" =>
                tasks # <<>> /\ Head(tasks).id = disp.task_id)
    /\ [][Len(tasks') < Len(tasks) => tasks' = Tail(tasks)]_vars

\* C1 witness: the first task was assigned while a task accepted later is
\* still queued.
C1_Witness ==
    /\ Len(tasks) = 1
    /\ tasks[1].id = 2
    /\ \E e \in executors : ~e.idle

\* The step of the dispatcher that commits an assignment: the head of the
\* queue goes, and the row of the executor that answered 202, and only that
\* row, gets idle=false.
AssignStep ==
    /\ disp.pc = "posted"
    /\ disp.status = 202
    /\ tasks # <<>>
    /\ Head(tasks).id = disp.task_id
    /\ tasks' = Tail(tasks)
    /\ \E e \in executors :
          /\ e.id = disp.executor_id
          /\ e.ip = disp.executor_ip
          /\ executors' = (executors \ {e}) \cup {[e EXCEPT !.idle = FALSE]}

\* C2: a step of the dispatcher leaves the queue as it is or is an
\* assignment; a row leaves the queue only in an assignment; an executor
\* goes from idle to busy only in an assignment.
C2_AtomicAssign ==
    [][/\ (disp' # disp /\ tasks' # tasks) => AssignStep
       /\ Len(tasks') < Len(tasks) => AssignStep
       /\ (\E e \in executors, f \in executors' :
              e.id = f.id /\ e.idle /\ ~f.idle) => AssignStep]_vars

\* C2 witness: after an assignment one executor is busy, the other is still
\* idle, and the queue is empty.
C2_Witness ==
    /\ tasks = <<>>
    /\ disp.pc = "sleep"
    /\ \E e \in executors, f \in executors : ~e.idle /\ f.idle

\* An executor has an assignment outstanding while one of its pipelines has
\* not delivered its result to the Manager.
Outstanding(ip) ==
    \E i \in DOMAIN pipes[ip] :
        \/ pipes[ip][i].pc = "running"
        \/ pipes[ip][i].pc = "waiting" /\ sink.pc = "received"

\* C3, read in the way most favourable to the code (the time between a
\* dispatch request and the dispatcher's commit for it is left out): an
\* executor with an outstanding assignment has idle=false, and one without
\* has idle=true.
C3_IdleTracksAssignment ==
    \A e \in executors :
        (disp.pc = "posted" /\ disp.executor_id = e.id) \/ inbox[e.ip] # <<>>
        \/ (Outstanding(e.ip) <=> ~e.idle)

\* C4: a dispatch that ends without a 202 (another status, a timeout, a
\* connection error) removes the row of the chosen executor and nothing
\* else, and leaves the queue as it is.
C4_ReapOnFailure ==
    [][(disp.pc = "posted" /\ disp'.pc = "sleep" /\ disp.status # 202) =>
          /\ tasks' = tasks
          /\ \E e \in executors :
                /\ e.id = disp.executor_id
                /\ e.ip = disp.executor_ip
                /\ executors' = executors \ {e}]_vars

\* C4 witness: the executor registered first has been reaped, the one
\* registered second is still there, and the task is still queued.
C4_Witness ==
    /\ disp.pc = "sleep"
    /\ tasks # <<>>
    /\ executors # {}
    /\ \A e \in executors : e.id = 2

\* C5: at most one pipeline runs on an executor.
C5_OnePipelinePerExecutor ==
    \A ip \in IPs : Len(pipes[ip]) <= 1

\* The pipelines of executor ip whose working directory is that of judgment j.
PipelinesIn(q, ip, j) == {i \in DOMAIN q[ip] : q[ip][i].judgment_id = j}

\* C6: a working directory is used by at most one running pipeline, and while
\* a pipeline keeps running in it, it is neither removed nor created anew.
C6_WorkdirExclusive ==
    /\ [](\A ip \in IPs, j \in JudgmentIds :
             Cardinality(PipelinesIn(pipes, ip, j)) <= 1)
    /\ [][\A ip \in IPs, j \in JudgmentIds :
             (PipelinesIn(pipes, ip, j) # {} /\ PipelinesIn(pipes', ip, j) # {})
             => /\ j \in workdir'[ip]
                /\ Cardinality(PipelinesIn(pipes', ip, j))
                      <= Cardinality(PipelinesIn(pipes, ip, j))]_vars

\* C7: requests to the Web backend are made only by a handling that has
\* committed idle=true for the executor of the request; the commit leaves
\* that executor's row with idle=true.
C7_IdleBeforeForward ==
    [][/\ (sink'.web # <<>> /\ sink'.web # sink.web) => sink.pc = "committed"
       /\ sink'.pc = "committed" => sink.pc \in {"received", "committed"}
       /\ (sink.pc = "received" /\ sink'.pc = "committed") =>
             \E e \in executors' : e.ip = sink.ip /\ e.idle]_vars

\* C7 witness: a handling has made requests to the Web backend for a known
\* executor.
C7_Witness ==
    /\ sink.pc = "done"
    /\ sink.web # <<>>
    /\ \E e \in executors : e.ip = sink.ip

\* C8: a handling that got as far as the Web backend (a well-formed result
\* from a known executor) answers 200, whatever the Web backend did.
C8_ForwardFailureSwallowed ==
    (sink.pc = "done" /\ sink.web # <<>>) => sink.status = 200

\* C9: a result from an address with no executor row is answered 404 with no
\* row of either table changed and nothing sent to the Web backend; a result
\* from a known address is not answered 404.
C9_UnknownExecutor404 ==
    /\ [][(sink.pc = "received" /\ sink'.pc # "received") =>
             IF {e \in executors : e.ip = sink.ip} = {}
             THEN /\ sink'.pc = "done"
                  /\ sink'.status = 404
                  /\ sink'.web = <<>>
                  /\ executors' = executors
                  /\ tasks' = tasks
             ELSE sink'.pc = "committed"]_vars
    /\ [][(sink.status = 404 /\ sink'.pc # "idle") => sink' = sink]_vars

\* C9 witness: a result was answered 404 while another executor is registered.
C9_Witness ==
    /\ sink.pc = "done"
    /\ sink.status = 404
    /\ executors # {}

\* C10: function implementations are posted only by a handling whose verdict
\* was passed.
C10_ImplsOnlyWhenPassed ==
    sink.pc = "done" =>
        \A i \in DOMAIN sink.web :
            sink.web[i].endpoint = "function_impls" =>
                \E k \in DOMAIN sink.web :
                    /\ sink.web[k].endpoint = "result"
                    /\ sink.web[k].data = "passed"

\* C11: a result from a known executor whose body is not JSON, or is a JSON
\* object without result or without log, is answered 400 and nothing is sent
\* to the Web backend.
C11_InvalidResult400 ==
    (/\ sink.pc = "done"
     /\ sink.status # 404
     /\ \/ sink.body.kind = "malformed"
        \/ sink.body.kind = "object" /\ (sink.body.result = "" \/ ~sink.body.has_log))
    => sink.status = 400 /\ sink.web = <<>>

\* The last row of a queue.
Last(ts) == ts[Len(ts)]

\* C12: an accepted intake request for judgment j adds one row for j at the
\* end of the queue, under an id no queued row has, whether or not j is
\* queued already, and changes no other row of either table; no other step
\* adds a row.
C12_IntakeAddsOneTask ==
    /\ [][\A j \in IntakeIds : Intake(j) =>
             /\ Len(tasks') = Len(tasks) + 1
             /\ SubSeq(tasks', 1, Len(tasks)) = tasks
             /\ Last(tasks').judgment_id = j
             /\ \A i \in 1..Len(tasks) : tasks[i].id # Last(tasks').id
             /\ executors' = executors]_vars
    /\ [][Len(tasks') > Len(tasks) => \E j \in IntakeIds : Intake(j)]_vars

\* C12 witness: the same judgment was posted twice; one of its two tasks has
\* been assigned and the other is still queued.
C12_Witness ==
    /\ Len(tasks) = 1
    /\ tasks[1].judgment_id = 43
    /\ disp.pc = "sleep"
    /\ \A ip \in IPs :
          /\ inbox[ip] = <<>>
          /\ \A i \in DOMAIN pipes[ip] : pipes[ip][i].judgment_id = 43
    /\ \E e \in executors : ~e.idle

\* The idle executors whose stored payload is an object with is_alive true.
AliveIdle(ex) ==
    {e \in ex : e.idle /\ Loads(e.data) = PyObject("true")}

AcceptedStatus == AnyStatus \ {None}

\* C14: on every table the fleet can leave, a report with payload d1 and then
\* one with payload d2 from the same address are accepted and leave exactly
\* one row for the address, whose data decodes to d2, and every other row as
\* it was; a second report with d2 changes nothing.
C14_HeartbeatIdempotent ==
    \A ip \in IPs, d1 \in AcceptedStatus, d2 \in AcceptedStatus :
        LET first == UpdateExecutorStatus(executors, ip, d1)
            second == UpdateExecutorStatus(first.executors, ip, d2)
            again == UpdateExecutorStatus(second.executors, ip, d2)
        IN  /\ first.status = 200 /\ second.status = 200 /\ again.status = 200
            /\ Cardinality({e \in second.executors : e.ip = ip}) = 1
            /\ \A e \in second.executors : e.ip = ip => Loads(e.data) = d2
            /\ {e \in second.executors : e.ip # ip} = {e \in executors : e.ip # ip}
            /\ again.executors = second.executors

\* C14 witness: an executor that was assigned a task (its payload said
\* is_alive true then) has reported since, and its one row holds the later
\* payload.
C14_Witness ==
    /\ Cardinality(executors) = 2
    /\ \E e \in executors : ~e.idle /\ Loads(e.data) = PyObject("false")

\* text contains the words of part, in a row and letter for letter.
Contains(text, part) ==
    \E k \in 0..(Len(text) - Len(part)) :
        \A i \in 1..Len(part) : text[k + i] = part[i]

\* C15: on every table the fleet can leave, a status report whose body is
\* empty or no JSON is answered 400 with an error text containing
\* "Invalid JSON data", and the table stays as it was.
C15_InvalidStatus400 ==
    \A ip \in IPs :
        LET r == UpdateExecutorStatus(executors, ip, None)
        IN  /\ r.status = 400
            /\ Contains(r.error, <<"Invalid", "JSON", "data">>)
            /\ r.executors = executors

\* C16: no two executor rows share an ip, with two workers handling reports
\* at once; a worker that found no row for the address and commits after a
\* row for it has been committed answers 500 and creates nothing, and a
\* commit adds at most one row.
C16_UniqueIp ==
    /\ [](\A e \in executors, f \in executors : e.ip = f.ip => e = f)
    /\ [][\A w \in Workers :
             (/\ hb[w].pc = "queried"
              /\ hb'[w].pc = "done"
              /\ hb[w].found = 0
              /\ \E e \in executors : e.ip = hb[w].ip)
             => hb'[w].status = 500 /\ executors' = executors]_vars
    /\ [][Cardinality(executors') <= Cardinality(executors) + 1]_vars

\* C16 witness: both workers handled a report from the same unknown address
\* at once (the dispatcher never removed a row: no task was ever queued); one
\* answered 200, the other 500, and there is one row.
C16_Witness ==
    /\ tasks = <<>>
    /\ disp.pc = "sleep"
    /\ hb["w1"].pc = "done" /\ hb["w1"].status = 200
    /\ hb["w2"].pc = "done" /\ hb["w2"].status = 500
    /\ hb["w1"].ip = hb["w2"].ip
    /\ Cardinality(executors) = 1
    /\ \A e \in executors : e.ip = hb["w1"].ip

\* C17: a start of the Manager leaves both tables empty, whatever they held,
\* and from empty tables only an intake request or a status report changes
\* either of them.
C17_EmptyAfterRestart ==
    /\ [][ManagerRestart => tasks' = <<>> /\ executors' = {}]_vars
    /\ [][(/\ tasks = <<>> /\ executors = {}
           /\ tasks' # tasks \/ executors' # executors)
          => \/ \E j \in JudgmentIds : Intake(j)
             \/ \E ip \in IPs, alive \in BOOLEAN : Heartbeat(ip, alive)]_vars

\* C17 witness: the Manager was started again while a pipeline was running:
\* both tables are empty and the pipeline is still there.
C17_Witness ==
    /\ tasks = <<>>
    /\ executors = {}
    /\ \E ip \in IPs : pipes[ip] # <<>>

\* The dispatcher has just given up an attempt: the executor answered
\* something else than 202, or the request failed.
AttemptFailed ==
    disp.pc = "posted" /\ disp.status # 202 /\ disp'.pc = "sleep"

\* C18: a failed attempt leaves the queue as it is, and the head of the queue
\* stays the head until it is assigned; while a task is queued and an idle
\* executor with is_alive true is registered, the dispatcher comes to post
\* the head task (unless no such executor is left); and an attempt answered
\* 202 comes to its end, which removes the task and marks the executor busy.
C18_RetryAfterFailure ==
    /\ [][AttemptFailed => tasks' = tasks]_vars
    /\ [][(tasks # <<>> /\ tasks' # <<>> /\ Head(tasks') # Head(tasks))
            => (disp.pc = "posted" /\ disp.status = 202
                /\ disp.task_id = Head(tasks).id)]_vars
    /\ (tasks # <<>> /\ AliveIdle(executors) # {})
          ~> \/ AliveIdle(executors) = {}
             \/ disp.pc = "posted" /\ disp.task_id = Head(tasks).id
    /\ (disp.pc = "posted" /\ disp.status = 202) ~> disp.pc = "sleep"
    /\ [][(disp.pc = "posted" /\ disp.status = 202 /\ disp'.pc = "sleep")
            => AssignStep]_vars

\* C18 witness: the first registered executor failed an attempt and was
\* removed; the task, still queued, has been posted to the executor
\* registered after it, which answered 202.
C18_Witness ==
    /\ disp.pc = "posted"
    /\ disp.status = 202
    /\ disp.executor_id = 2
    /\ tasks # <<>>
    /\ Head(tasks).id = disp.task_id
    /\ \A e \in executors : e.id # 1

\* C19: a run of the pipeline that has ended has called submit_result exactly
\* once, with passed, failed or error.
C19_SubmitExactlyOnce ==
    run.pc = "exit" =>
        /\ Len(run.submits) = 1
        /\ run.submits[1].result \in {"passed", "failed", "error"}

\* A subprocess that exits with a status other than 0.
ExitsNonZero(outcome) == outcome \in {"nonzero", "nonzero_undecodable"}

\* C20: when a step of a run (configure, build, test configure, test build,
\* test run) exits non-zero, it is the last step run, and the run submits
\* failed with the captured output of that step as log.
C20_FailedStepShortCircuits ==
    run.pc = "exit" =>
        \A k \in DOMAIN run.steps :
            (run.steps[k] # "extract" /\ ExitsNonZero(run.env[run.steps[k]])) =>
                /\ k = Len(run.steps)
                /\ run.submits =
                      <<SubmitCall("failed", Output(run.steps[k]), NoImpls)>>

\* The number of extractions a run made.
Tried(steps) == Cardinality({k \in DOMAIN steps : steps[k] = "extract"})

\* C21: when the last step of a run raised an exception (a subprocess that
\* could not be started or whose output could not be decoded, an extraction
\* that raised), the run submits error with the text of the exception as
\* log.
C21_ExceptionGivesError ==
    (run.pc = "exit" /\ run.steps # <<>>) =>
        LET s == Last(run.steps)
            n == Tried(run.steps)
        IN  /\ (s # "extract" /\ SubprocessRun(s, run.env[s]).raised) =>
                  run.submits =
                      <<SubmitCall("error",
                                   StrOf(SubprocessRun(s, run.env[s]).exc),
                                   NoImpls)>>
            /\ (s = "extract"
                /\ run.env.requirements.cases[n] \in {"no_entry", "crash"}) =>
                  run.submits =
                      <<SubmitCall("error", StrOf(FailedToExtract), NoImpls)>>

Verdict == run.submits[1].result

C25_NoCompileCommandFails ==
    (/\ run.pc = "exit"
     /\ Tried(run.steps) > 0
     /\ run.env.requirements.cases[Tried(run.steps)] = "no_entry") =>
        /\ Len(run.submits) = 1
        /\ Verdict = "failed"

\* C26: a judge request downloads the template archive only when the
\* executor holds no copy of the template or holds one older than the remote
\* version.
C26_DownloadOnlyWhenStale ==
    tm.pc = "serving" =>
        (tm.last.downloaded =>
            \/ tm.last.held = NoEntry
            \/ tm.last.held < tm.last.remote)

\* The requests a call sent to its endpoint, and what it sent between the
\* first of them and the end or the retry.
Requests(trace) == Cardinality({k \in DOMAIN trace : trace[k] = "request"})
Renewal(trace) ==
    LET first == CHOOSE k \in DOMAIN trace :
                     /\ trace[k] = "request"
                     /\ \A j \in 1..(k - 1) : trace[j] # "request"
    IN  SelectSeq(SubSeq(trace, first + 1, Len(trace)),
                  LAMBDA e : e # "request")

\* The first request of a finished call was answered 401.
Got401 ==
    /\ api.pc = "done"
    /\ Requests(api.trace) > 0
    /\ api.env.first = "401"

\* C27: a call whose request is answered 401 makes one token refresh (or a
\* login in its place or after its failure) and then exactly one retry; a
\* second 401 ends the call with APIRequestError; no call sends more than
\* two requests to its endpoint.
C27_OneRefreshOneRetry ==
    /\ api.pc = "done" => Requests(api.trace) <= 2
    /\ Got401 =>
          /\ Renewal(api.trace)
                \in {<<"refresh">>, <<"refresh", "login">>, <<"login">>}
          /\ Requests(api.trace) = 2
          /\ api.env.second = "401" => api.outcome = "APIRequestError"

\* The renewal a 401 leads to succeeds: the refresh is accepted, or the
\* login made in its place or after it is.
Renewed(env, tokens) ==
    \/ tokens = "full" /\ env.refresh = "ok"
    \/ env.login = "ok"

\* C27, amended: after a 401 the call makes one token refresh when a refresh
\* token is stored, followed by one login when the refresh fails, and one
\* login alone when none is stored; when that renewal succeeds exactly one
\* retry follows and its response decides the call (anything but 200,
\* a second 401 included, raises APIRequestError); when it fails no retry is
\* sent and APIRequestError is raised; no call sends more than two requests
\* to its endpoint.
C27_OneRenewalThenRetry ==
    /\ api.pc = "done" => Requests(api.trace) <= 2
    /\ Got401 =>
          LET env == api.env
              tokens == IF env.tokens = "none" THEN "full" ELSE env.tokens
          IN  /\ Renewal(api.trace) =
                    CASE tokens # "full" -> <<"login">>
                      [] env.refresh = "ok" -> <<"refresh">>
                      [] OTHER -> <<"refresh", "login">>
              /\ Renewed(env, tokens) =>
                    /\ Requests(api.trace) = 2
                    /\ api.outcome = Surface(env.second)
              /\ ~Renewed(env, tokens) =>
                    /\ Requests(api.trace) = 1
                    /\ api.outcome = "APIRequestError"

C27_Witness ==
    /\ Got401
    /\ api.env.second = "401"
    /\ api.trace = <<"request", "refresh", "login", "request">>
    /\ api.outcome = "APIRequestError"

\* C28: when a step of the judge handler before the spawn fails (any of the
\* reads from the Web backend, the function requirements included, or the
\* preparation of the working directory), the handler answers 500 with an
\* error body and starts no pipeline process.
C28_FailureBeforeSpawn500 ==
    (judge.pc = "done" /\ judge.env.failing \in StepNames \ {"spawn"}) =>
        /\ judge.answer.status = 500
        /\ judge.answer.body \in {"error", "error_message"}
        /\ ~judge.answer.spawned

\* A function or method declaration that matches the signature and has a
\* compound statement among its children.
Definition(cursor) ==
    /\ cursor.kind \in {"FUNCTION_DECL", "CXX_METHOD"}
    /\ IsFunctionMatch(cursor, Signature)
    /\ "COMPOUND_STMT" \in {GetChildren(cursor)[k] :
                              k \in DOMAIN GetChildren(cursor)}

Offset(lines, loc) == Len(Join(lines, 1, loc.line - 1)) + loc.column
Contiguous(lines, from, to) ==
    SubSeq(Join(lines, 1, Len(lines)), Offset(lines, from), Offset(lines, to))

\* C30: the text returned is, character for character, the text of the file
\* from the start of the function cursor's extent to the end of the body's
\* extent, within one line or over several.
C30_VerbatimSpan ==
    ext.pc = "done" => ext.text = Contiguous(ext.lines, ext.start, ext.end)

\* Executor ip has a pipeline whose result the Manager has not handled: the
\* pipeline has not posted it, or the Manager took the request and has not
\* committed idle=true for it.
Unhandled(ip) ==
    \E i \in DOMAIN pipes[ip] :
        \/ pipes[ip][i].pc = "running"
        \/ pipes[ip][i].pc = "waiting" /\ sink.pc = "received" /\ sink.ip = ip

C32_NoPipelineForFailedAttempt ==
    [][\A ip \in IPs :
          Len(pipes'[ip]) > Len(pipes[ip])
          => inbox[ip] # <<>> /\ Head(inbox[ip]).live]_vars

\* Task t is in the queue.
Queued(t) == \E i \in DOMAIN tasks : tasks[i].id = t

\* C33: with a dispatcher that keeps ticking and an executor that keeps
\* sending heartbeats with is_alive true, answers every dispatch request with
\* 202 and has every result delivered, every queued task is eventually
\* removed from the queue.
C33_EveryTaskAssigned ==
    \A t \in 1..MaxTaskId : Queued(t) ~> ~Queued(t)

\* C34: a pass of the dispatcher over the idle executors deletes no row,
\* passes over the rows without a true is_alive (a stored value that is no
\* JSON object among them) and posts to the first idle executor with
\* is_alive true if there is one; the dispatcher's loop never ends.
C34_BadRowsSkipped ==
    /\ [][(disp.pc = "sleep" /\ disp' # disp) =>
             /\ executors' = executors
             /\ disp'.pc = "posted"
             /\ \E e \in AliveIdle(executors) :
                   /\ e.id = disp'.executor_id
                   /\ \A f \in AliveIdle(executors) : e.id <= f.id]_vars
    /\ [](disp.pc # "crashed")

C36_ReregisterAfterReap ==
    [][\A ip \in IPs :
          (ExecutorByIp(executors, ip) = {} /\ ExecutorByIp(executors', ip) # {})
          => \E alive \in BOOLEAN :
                LET row == [id |-> NextRowId(executors), ip |-> ip,
                            data |-> Dumps(CollectStatus(alive)),
                            idle |-> TRUE]
                IN  /\ executors' = executors \cup {row}
                    /\ alive => row \in AliveIdle(executors')]_vars

\* C36 witness: of two registered executors the first was removed by the
\* dispatcher and has sent a heartbeat since (its new row has id 3), and a
\* later tick has posted the queued task to it.
C36_Witness ==
    /\ disp.pc = "posted"
    /\ disp.executor_id = 3
    /\ disp.executor_ip = "10.0.0.2"
    /\ \E e \in executors : e.id = 2 /\ e.ip = "10.0.0.3"

\* The table ex with the data of the row of address ip replaced.
WithData(ex, ip, json_data) ==
    {IF e.ip = ip THEN [e EXCEPT !.data = json_data] ELSE e : e \in ex}

\* C37: on every table the fleet can leave, a heartbeat from an address that
\* has a row leaves a table that differs from the old one in the data of
\* that row at most (same rows, same ids, same idle flags); and a step that
\* changes the data of a row changes nothing else: no task, no other row, no
\* request and no pipeline.
C37_HeartbeatFrame ==
    /\ [](\A ip \in IPs, alive \in BOOLEAN :
             ExecutorByIp(executors, ip) # {} =>
                LET r == UpdateExecutorStatus(executors, ip, CollectStatus(alive))
                IN  /\ r.status = 200
                    /\ r.executors =
                          WithData(executors, ip, Dumps(CollectStatus(alive))))
    /\ [][\A e \in executors, f \in executors' :
             (e.id = f.id /\ e.data # f.data) =>
                /\ executors' = WithData(executors, e.ip, f.data)
                /\ UNCHANGED <<tasks, disp, inbox, pipes, workdir, sink>>]_vars

\* C37 witness: with a task queued, an executor that was assigned a task
\* while it reported is_alive true has reported is_alive false since, and is
\* still busy.
C37_Witness ==
    /\ tasks # <<>>
    /\ \E e \in executors : ~e.idle /\ Loads(e.data) = PyObject("false")

\* The name test as the claim words it.
NameMatches(cursor, name) ==
    IF name = "C::f"
    THEN /\ cursor.spelling = "f"
         /\ cursor.semantic_parent.kind \in {"CLASS_DECL", "STRUCT_DECL"}
         /\ cursor.semantic_parent.spelling = "C"
    ELSE cursor.spelling = name

\* The canonical types of a list of parameters, in order.
CanonicalTypes(params) == [k \in DOMAIN params |-> Canonical(params[k].type)]

\* A list of parameters with every name replaced.
Renamed(params, field, n) ==
    [k \in DOMAIN params |->
        IF field = "name" THEN [params[k] EXCEPT !.name = n]
                          ELSE [params[k] EXCEPT !.spelling = n]]

C39_OneTopLevelDirectory ==
    (tm.pc = "done" /\ tm.contents # <<"dir">>) =>
        /\ tm.outcome # "returned"
        /\ tm.manager.template_cache[tm.template_id] = NoEntry

============================================================================
